---- MODULE Spec2Model ----
(***************************************************************************)
(* agistress: a FastAGI benchmarking client (src/agistress.go, lines       *)
(* 1-364).  The model follows the goroutines of the program: main,         *)
(* agiBench, one loop per run lane, one agiConnection per session, and the *)
(* three monitors calcAvrg, logger and consoleOutput, communicating        *)
(* through the atomics of Bench and the two buffered channels.             *)
(***************************************************************************)
EXTENDS Integers, Sequences, FiniteSets, TLC

\* ------------------------------------------------------------ bounds
\* Largest value of the -sess flag (number of lanes) explored.
MaxLanes == 2
\* Lanes stop entering the ticker wait once this many sessions were started.
MaxSessions == 2
\* Most ordinary lines a peer sends in one session.
MaxLines == 1
\* Longest payload script explored.
MaxScript == 1
\* Largest elapsed time (ns) a session of the engine measures.
MaxElapsed == 1
\* The window of calcAvrg (10000 in the program, line 289), scaled down.
Window == 3
\* Largest duration and longest input fed to calcAvrg on its own.
MaxDur == 3
MaxFeed == 4
\* The session of -single runs alone, so it is explored further: the most
\* ordinary lines its peer sends, and the longest script it is given.
SingleLines == 3
SingleScript == 3

\* ------------------------------------------------------------ constants
successReply == "200 result=0\n"
hangupReply == "200 result=1\nHANGUP\n"
hangup == "HANGUP"
failure == "FAILURE"

\* b.Payload: nil when no script was loaded, else the loaded slice
Nil == [nil |-> TRUE, msgs |-> << >>]
Loaded(msgs) == [nil |-> FALSE, msgs |-> msgs]
\* scanner.Scan() returned false
EOF == "<eof>"
\* conn.Write(b.Env)
EnvBlock == "<env>"
\* time.Sleep before a reply
SleepEv == "<sleep>"
\* conn.Close()
CloseEv == "<close>"

\* Lines a peer may send: the two sentinels and ordinary data, among them
\* lines that only resemble a sentinel.  The sessions of a benchmark draw
\* their ordinary lines from BenchLines, the one of -single from all of them.
DataLines == {"", "hangup", "Failure", "HANGUP FAILURE", "EXEC"}
BenchLines == {"hangup"}
Lines == {hangup, failure} \cup DataLines

\* Script of n messages: AgiMsg{Msg, Delay} pairs.
RECURSIVE Script(_)
Script(n) == IF n = 0 THEN << >>
             ELSE Append(Script(n - 1), [Msg |-> "msg" \o ToString(n), Delay |-> n])

Payloads == {Nil} \cup {Loaded(Script(n)) : n \in 0..SingleScript}

\* ------------------------------------------------------------ configuration
\* confData.AgiEnv: nil when no list was loaded, else the loaded slice
NilEnv == [nil |-> TRUE, lines |-> << >>]
LoadedEnv(lines) == [nil |-> FALSE, lines |-> lines]

\* the command line: *host, *req, *cid, *ext and flag.Args()
DefaultFlags == [host |-> "127.0.0.1", req |-> "myagi?file=echo-test",
                 cid |-> "Unknown", ext |-> "100", args |-> << >>]
FlagSets == [host : {"127.0.0.1"}, req : {"", "myagi?file=echo-test"},
             cid : {"Unknown"}, ext : {"100"}, args : {<< >>, << "a", "b" >>}]

\* A block of bytes is kept as the sequence of its lines, each of them ended
\* by a newline; fmt.Sprintln(s) adds the line s to it.
Sprintln(s) == << s >>

\* Variant of agiInit: the closing blank line is missing.
agiInit_NoBlank(env, fl) ==
    IF ~env.nil THEN env.lines ELSE << "agi_network: yes" >>

\* agiInit: the loaded list line by line, or the default block made of the
\* command line parameters; then the closing "\n", an empty line
agiInit(env, fl) ==
    LET envData ==
          IF ~env.nil
          THEN env.lines
          ELSE Sprintln("agi_network: yes")
               \o (IF fl.req # ""
                   THEN Sprintln("agi_network_script: " \o fl.req)
                        \o Sprintln("agi_request: agi://" \o fl.host \o "/" \o fl.req)
                   ELSE Sprintln("agi_request: agi://" \o fl.host))
               \o Sprintln("agi_channel: SIP/1234-00000000")
               \o Sprintln("agi_language: en")
               \o Sprintln("agi_type: SIP")
               \o Sprintln("agi_uniqueid: 1410638774.0")
               \o Sprintln("agi_version: 10.1.1.0")
               \o Sprintln("agi_callerid: " \o fl.cid)
               \o Sprintln("agi_calleridname: " \o fl.cid)
               \o Sprintln("agi_callingpres: 67")
               \o Sprintln("agi_callingani2: 0")
               \o Sprintln("agi_callington: 0")
               \o Sprintln("agi_callingtns: 0")
               \o Sprintln("agi_dnid: " \o fl.ext)
               \o Sprintln("agi_rdnis: unknown")
               \o Sprintln("agi_context: default")
               \o Sprintln("agi_extension: " \o fl.ext)
               \o Sprintln("agi_priority: 1")
               \o Sprintln("agi_enhanced: 0.0")
               \o Sprintln("agi_accountcode: ")
               \o Sprintln("agi_threadid: -1281018784")
               \o [k \in 1..Len(fl.args) |->
                      "agi_arg_" \o ToString(k) \o ": " \o fl.args[k]]
    IN Append(envData, "")

\* The file named by -conf.  kind: "none" (no -conf), "unopenable", "syntax"
\* (not a JSON value), "typeerr" (a JSON object in which the value of the key
\* bad has the wrong type) or "ok"; env and payload are what the two keys
\* hold when well typed (nil: the key is absent), first is the key that comes
\* first in the file.
EnvLists == {<< >>, << "agi_network: yes" >>, << "b: 2", "", "a: 1" >>}
EnvVals == {NilEnv} \cup {LoadedEnv(l) : l \in EnvLists}
PayVals == {Nil, Loaded(<< >>), Loaded(Script(1))}
ConfFiles ==
    [kind : {"none", "unopenable"}, env : {NilEnv}, payload : {Nil},
     bad : {""}, first : {"env"}]
    \cup [kind : {"syntax", "ok"}, env : EnvVals, payload : PayVals,
          bad : {""}, first : {"env"}]
    \cup [kind : {"typeerr"}, env : EnvVals, payload : PayVals,
          bad : {"env", "payload"}, first : {"env", "payload"}]

\* var confData Config
ZeroConfig == [AgiEnv |-> NilEnv, AgiPayload |-> Nil]

\* os.Open and decoder.Decode(&confData): what confData may hold afterwards
\* and whether an error was reported.  A file that is not opened or is not a
\* JSON value stores nothing.  A value of the wrong type is skipped and
\* reported, the keys before it are stored, and the keys after it are stored
\* or not.
Decode(f) ==
    CASE f.kind = "none" -> {[conf |-> ZeroConfig, err |-> FALSE]}
      [] f.kind \in {"unopenable", "syntax"} -> {[conf |-> ZeroConfig, err |-> TRUE]}
      [] f.kind = "ok" ->
           {[conf |-> [AgiEnv |-> f.env, AgiPayload |-> f.payload], err |-> FALSE]}
      [] f.kind = "typeerr" ->
           LET after == IF f.first = f.bad THEN BOOLEAN ELSE {TRUE}
           IN {[conf |-> IF f.bad = "env"
                         THEN [AgiEnv |-> NilEnv,
                               AgiPayload |-> IF kept THEN f.payload ELSE Nil]
                         ELSE [AgiEnv |-> IF kept THEN f.env ELSE NilEnv,
                               AgiPayload |-> Nil],
                err |-> TRUE] : kept \in after}

VARIABLES
    cfg,        \* the flags and the loaded configuration: single, debug, sess, Payload, Env
    Shutdown,   \* Bench.Shutdown
    Active,     \* Bench.Active
    Count,      \* Bench.Count
    Fail,       \* Bench.Fail
    AvrDur,     \* Bench.AvrDur
    LogChan,    \* Bench.LogChan: [buf, closed]
    TimeChan,   \* Bench.TimeChan: [buf, closed]
    logFile,    \* records written through Bench.Logger
    mainPc,     \* position of main
    benchPc,    \* position of agiBench
    lanePc,     \* position of each lane goroutine
    wgMain, wgBench, wgMon, wgConn,   \* the WaitGroups
    conns,      \* every agiConnection started so far, in start order
    calcPc,     \* position of calcAvrg
    sessions,   \* the local counter of calcAvrg
    folded,     \* durations calcAvrg has received, in order
    logPc,      \* position of logger
    conPc       \* position of consoleOutput

vars == << cfg, Shutdown, Active, Count, Fail, AvrDur, LogChan, TimeChan, logFile,
           mainPc, benchPc, lanePc, wgMain, wgBench, wgMon, wgConn, conns,
           calcPc, sessions, folded, logPc, conPc >>

counters == << Active, Count, Fail >>
monitors == << calcPc, sessions, folded, AvrDur, logPc, conPc, logFile >>
engine == << mainPc, benchPc, lanePc, wgMain, wgBench, wgMon >>

\* ------------------------------------------------------------ channels
\* make(chan T, *sess*2)
MakeChan(sess) == [buf |-> << >>, closed |-> FALSE, cap |-> 2 * sess]
\* A buffered send proceeds when there is room; on a closed channel it panics.
\* With capacity 0 a send waits for a receiver.
CanSend(ch) == ch.closed \/ Len(ch.buf) < ch.cap
Send(ch, v) == [ch EXCEPT !.buf = Append(@, v)]
CanRecv(ch) == Len(ch.buf) > 0
Recv(ch) == [ch EXCEPT !.buf = Tail(@)]
Drained(ch) == ch.closed /\ Len(ch.buf) = 0
Close(ch) == [ch EXCEPT !.closed = TRUE]


\* ------------------------------------------------------------ sessions
\* What one agiConnection has done so far: its effect on the shared state.
NoRep == [fail |-> 0, count |-> 0, inc |-> 0, dec |-> 0, sample |-> 0, log |-> 0]

\* The pc of a goroutine names the source line it is about to execute.
\* A session just started by `go agiConnection(b, wg, consoleDb)`: lane is the
\* lane whose wgConn it holds, 0 for the session of -single (it holds wgMain).
NewConn(l) == [lane |-> l, pc |-> "l187", line |-> "", idx |-> 0, io |-> << >>,
               dur |-> 0, rep |-> NoRep]

Running == mainPc # "exit"
Ids == 1..Len(conns)
HasScript == ~cfg.Payload.nil

\* Variant of classify: the comparison ignores the case of the letters.
classify_IgnoreCase(line) ==
    IF line \in {failure, "Failure", "failure"} THEN "Failure"
    ELSE IF line \in {hangup, "Hangup", "hangup"} THEN "Hangup"
    ELSE "Data"

\* scanner.Text() == failure / hangup, else an ordinary line
classify(line) == IF line = failure THEN "Failure"
                  ELSE IF line = hangup THEN "Hangup"
                  ELSE "Data"

\* the most ordinary lines the peer of a session sends when there is no script
LineBound == IF cfg.single THEN SingleLines ELSE MaxLines

\* what the peer of a session may deliver to one scanner.Scan()
PeerSends == {hangup, failure, EOF} \cup (IF cfg.single THEN DataLines ELSE BenchLines)

\* defer wg.Done() of agiConnection
ConnDone(i) ==
    IF conns[i].lane = 0
    THEN /\ wgMain' = wgMain - 1
         /\ UNCHANGED wgConn
    ELSE /\ wgConn' = [wgConn EXCEPT ![conns[i].lane] = @ - 1]
         /\ UNCHANGED wgMain

\* ------------------------------------------------------------ Init
Init ==
    /\ cfg \in [single : BOOLEAN, debug : BOOLEAN, sess : 0..MaxLanes, Payload : Payloads,
                Env : {agiInit(NilEnv, DefaultFlags)}]
    /\ cfg.single \/ Len(cfg.Payload.msgs) <= MaxScript
    /\ Shutdown = 0
    /\ Active = 0
    /\ Count = 0
    /\ Fail = 0
    /\ AvrDur = 0
    /\ LogChan = MakeChan(cfg.sess)
    /\ TimeChan = MakeChan(cfg.sess)
    /\ logFile = IF cfg.debug THEN << "#Started" >> ELSE << >>
    /\ mainPc = "l102"
    /\ benchPc = "off"
    /\ lanePc = << >>
    /\ wgMain = 1
    /\ wgBench = 0
    /\ wgMon = 0
    /\ wgConn = << >>
    /\ conns = << >>
    /\ calcPc = "off"
    /\ sessions = 0
    /\ folded = << >>
    /\ logPc = "off"
    /\ conPc = "off"

\* ------------------------------------------------------------ main
\* -single: go agiConnection(b, wgMain, true)
MainSingle ==
    /\ mainPc = "l102"
    /\ cfg.single
    /\ conns' = Append(conns, NewConn(0))
    /\ mainPc' = "l111"
    /\ UNCHANGED << cfg, Shutdown, counters, LogChan, TimeChan, monitors,
                    benchPc, lanePc, wgMain, wgBench, wgMon, wgConn >>

\* go agiBench(b, wgMain), then block on stdin
MainBench ==
    /\ mainPc = "l102"
    /\ ~cfg.single
    /\ benchPc' = "l143"
    /\ mainPc' = "l108"
    /\ UNCHANGED << cfg, Shutdown, counters, LogChan, TimeChan, monitors,
                    lanePc, wgMain, wgBench, wgMon, wgConn, conns >>

\* the operator presses Enter: atomic.StoreUint32(&b.Shutdown, 1)
MainStop ==
    /\ mainPc = "l108"
    /\ Shutdown' = 1
    /\ mainPc' = "l111"
    /\ UNCHANGED << cfg, counters, LogChan, TimeChan, monitors,
                    benchPc, lanePc, wgMain, wgBench, wgMon, wgConn, conns >>

\* wgMain.Wait() returns, the deferred flush runs and the process ends
MainExit ==
    /\ mainPc = "l111"
    /\ wgMain = 0
    /\ logFile' = IF cfg.debug THEN Append(logFile, "#Stopped") ELSE logFile
    /\ mainPc' = "exit"
    /\ UNCHANGED << cfg, Shutdown, counters, LogChan, TimeChan, AvrDur, calcPc, sessions,
                    folded, logPc, conPc, benchPc, lanePc, wgMain, wgBench, wgMon,
                    wgConn, conns >>

\* ------------------------------------------------------------ agiBench
\* the lanes and the monitors are started
BenchSpawn ==
    /\ Running
    /\ benchPc = "l143"
    /\ wgBench' = cfg.sess
    /\ lanePc' = [l \in 1..cfg.sess |-> "l151"]
    /\ wgConn' = [l \in 1..cfg.sess |-> 0]
    /\ wgMon' = IF cfg.debug THEN 3 ELSE 2
    /\ logPc' = IF cfg.debug THEN "l277" ELSE "off"
    /\ calcPc' = "l286"
    /\ conPc' = "l311"
    /\ benchPc' = "l170"
    /\ UNCHANGED << cfg, Shutdown, counters, LogChan, TimeChan, AvrDur, sessions, folded,
                    logFile, mainPc, wgMain, conns >>

\* Variant of BenchWait: agiBench goes on to close the channels without
\* waiting for the lanes.
BenchWait_NoWait ==
    /\ Running
    /\ benchPc = "l170"
    /\ benchPc' = "l171"
    /\ UNCHANGED << cfg, Shutdown, counters, LogChan, TimeChan, monitors,
                    mainPc, lanePc, wgMain, wgBench, wgMon, wgConn, conns >>

\* wgBench.Wait()
BenchWait ==
    /\ Running
    /\ benchPc = "l170"
    /\ wgBench = 0
    /\ benchPc' = "l171"
    /\ UNCHANGED << cfg, Shutdown, counters, LogChan, TimeChan, monitors,
                    mainPc, lanePc, wgMain, wgBench, wgMon, wgConn, conns >>

\* close(b.LogChan)
BenchCloseLog ==
    /\ Running
    /\ benchPc = "l171"
    /\ LogChan' = Close(LogChan)
    /\ benchPc' = "l172"
    /\ UNCHANGED << cfg, Shutdown, counters, TimeChan, monitors,
                    mainPc, lanePc, wgMain, wgBench, wgMon, wgConn, conns >>

\* Variant of BenchCloseTime: the duration channel is left open.
BenchCloseTime_Skip ==
    /\ Running
    /\ benchPc = "l172"
    /\ benchPc' = "l174"
    /\ UNCHANGED << cfg, Shutdown, counters, LogChan, TimeChan, monitors,
                    mainPc, lanePc, wgMain, wgBench, wgMon, wgConn, conns >>

\* close(b.TimeChan)
BenchCloseTime ==
    /\ Running
    /\ benchPc = "l172"
    /\ TimeChan' = Close(TimeChan)
    /\ benchPc' = "l174"
    /\ UNCHANGED << cfg, Shutdown, counters, LogChan, monitors,
                    mainPc, lanePc, wgMain, wgBench, wgMon, wgConn, conns >>

\* wgMon.Wait(), then the deferred wg.Done()
BenchDone ==
    /\ Running
    /\ benchPc = "l174"
    /\ wgMon = 0
    /\ wgMain' = wgMain - 1
    /\ benchPc' = "done"
    /\ UNCHANGED << cfg, Shutdown, counters, LogChan, TimeChan, monitors,
                    mainPc, lanePc, wgBench, wgMon, wgConn, conns >>

\* ------------------------------------------------------------ lanes
Waiting == Cardinality({l \in DOMAIN lanePc : lanePc[l] = "l152"})

\* for atomic.LoadUint32(&b.Shutdown) == 0
LaneCheck(l) ==
    /\ Running
    /\ lanePc[l] = "l151"
    /\ Shutdown = 0 => Len(conns) + Waiting < MaxSessions
    /\ lanePc' = [lanePc EXCEPT ![l] = IF Shutdown = 0 THEN "l152" ELSE "l156"]
    /\ UNCHANGED << cfg, Shutdown, counters, LogChan, TimeChan, monitors,
                    mainPc, benchPc, wgMain, wgBench, wgMon, wgConn, conns >>

\* Variant of LaneTick: the lane launches only when its earlier sessions have
\* returned.
LaneTick_Serial(l) ==
    /\ Running
    /\ lanePc[l] = "l152"
    /\ wgConn[l] = 0
    /\ wgConn' = [wgConn EXCEPT ![l] = @ + 1]
    /\ conns' = Append(conns, NewConn(l))
    /\ lanePc' = [lanePc EXCEPT ![l] = "l151"]
    /\ UNCHANGED << cfg, Shutdown, counters, LogChan, TimeChan, monitors,
                    mainPc, benchPc, wgMain, wgBench, wgMon >>

\* <-ticker; wgConn.Add(1); go agiConnection(b, wgConn, false)
LaneTick(l) ==
    /\ Running
    /\ lanePc[l] = "l152"
    /\ wgConn' = [wgConn EXCEPT ![l] = @ + 1]
    /\ conns' = Append(conns, NewConn(l))
    /\ lanePc' = [lanePc EXCEPT ![l] = "l151"]
    /\ UNCHANGED << cfg, Shutdown, counters, LogChan, TimeChan, monitors,
                    mainPc, benchPc, wgMain, wgBench, wgMon >>

\* Variant of LaneWait: the lane ends without waiting for its sessions.
LaneWait_NoWait(l) ==
    /\ Running
    /\ lanePc[l] = "l156"
    /\ wgBench' = wgBench - 1
    /\ lanePc' = [lanePc EXCEPT ![l] = "done"]
    /\ UNCHANGED << cfg, Shutdown, counters, LogChan, TimeChan, monitors,
                    mainPc, benchPc, wgMain, wgMon, wgConn, conns >>

\* wgConn.Wait(), then the deferred wgBench.Done()
LaneWait(l) ==
    /\ Running
    /\ lanePc[l] = "l156"
    /\ wgConn[l] = 0
    /\ wgBench' = wgBench - 1
    /\ lanePc' = [lanePc EXCEPT ![l] = "done"]
    /\ UNCHANGED << cfg, Shutdown, counters, LogChan, TimeChan, monitors,
                    mainPc, benchPc, wgMain, wgMon, wgConn, conns >>


\* ------------------------------------------------------------ agiConnection
\* io is what happened on the connection, in order: reads, sleeps, writes, close
Ev(e, v) == [ev |-> e, v |-> v]
At(i, label) == Running /\ conns[i].pc = label
Set(i, r) == conns' = [conns EXCEPT ![i] = r]
Bump(c, f) == [c EXCEPT !.rep[f] = @ + 1]

\* return: conn, scanner, start and elapsed are locals of the goroutine
Return(c) == [c EXCEPT !.pc = "done", !.line = "", !.idx = 0, !.io = << >>, !.dur = 0]

\* Variant of LoopHead: with a script too the session reads until the peer
\* hangs up.
LoopHead_UntilHangup(c) == "loop"

\* the head of the reply loop: `for scanner.Scan()` without a script, with one
\* `for _, pld := range b.Payload`, which ends when the script is exhausted
LoopHead(c) == IF HasScript /\ c.idx >= Len(cfg.Payload.msgs) THEN "l260" ELSE "loop"

\* the delay and the reply of the current iteration
ReplyDelay(c) == IF HasScript THEN ToString(cfg.Payload.msgs[c.idx + 1].Delay)
                 ELSE "ReplyDelay"
\* Variant of ReplyMsg: the script is consumed from its end.
ReplyMsg_Reversed(c) ==
    IF HasScript THEN cfg.Payload.msgs[Len(cfg.Payload.msgs) - c.idx].Msg \o "\n"
    ELSE successReply

ReplyMsg(c) == IF HasScript THEN cfg.Payload.msgs[c.idx + 1].Msg \o "\n"
               ELSE successReply

\* Variant of Dial: the handshake is written as soon as the dial returns,
\* before its error is looked at.
Dial_WritesEnv(i) ==
    /\ At(i, "l187")
    /\ \E ok \in BOOLEAN :
         Set(i, [conns[i] EXCEPT !.io = Append(@, Ev("tx", EnvBlock)),
                                 !.pc = IF ok THEN "l199" ELSE "l190"])
    /\ UNCHANGED << cfg, Shutdown, counters, LogChan, TimeChan, monitors, engine, wgConn >>

\* net.Dial / tls.Dial returns
Dial(i) ==
    /\ At(i, "l187")
    /\ \E ok \in BOOLEAN :
         Set(i, [conns[i] EXCEPT !.pc = IF ok THEN "l199" ELSE "l190"])
    /\ UNCHANGED << cfg, Shutdown, counters, LogChan, TimeChan, monitors, engine, wgConn >>

\* Variant of ConnFail: the failed connection is not counted.
ConnFail_Silent(i) ==
    /\ At(i, "l190")
    /\ IF cfg.debug
       THEN /\ Set(i, [conns[i] EXCEPT !.pc = "l192"])
            /\ UNCHANGED << wgMain, wgConn >>
       ELSE /\ Set(i, Return(conns[i]))
            /\ ConnDone(i)
    /\ UNCHANGED << cfg, Shutdown, counters, LogChan, TimeChan, monitors,
                    mainPc, benchPc, lanePc, wgBench, wgMon >>

\* Variant of ConnFail: the failed connection is counted and dialled again.
ConnFail_Retry(i) ==
    /\ At(i, "l190")
    /\ Fail' = Fail + 1
    /\ Set(i, [Bump(conns[i], "fail") EXCEPT !.pc = "l187"])
    /\ UNCHANGED << cfg, Shutdown, Active, Count, LogChan, TimeChan, monitors, engine, wgConn >>

\* Variant of ConnFail: a connection that failed is entered in Active.
ConnFail_CountsActive(i) ==
    /\ At(i, "l190")
    /\ Fail' = Fail + 1
    /\ Active' = Active + 1
    /\ IF cfg.debug
       THEN /\ Set(i, [Bump(conns[i], "fail") EXCEPT !.pc = "l192"])
            /\ UNCHANGED << wgMain, wgConn >>
       ELSE /\ Set(i, Return(Bump(conns[i], "fail")))
            /\ ConnDone(i)
    /\ UNCHANGED << cfg, Shutdown, Count, LogChan, TimeChan, monitors,
                    mainPc, benchPc, lanePc, wgBench, wgMon >>

\* err != nil: atomic.AddUint32(&b.Fail, 1); without -debug the function returns
ConnFail(i) ==
    /\ At(i, "l190")
    /\ Fail' = Fail + 1
    /\ IF cfg.debug
       THEN /\ Set(i, [Bump(conns[i], "fail") EXCEPT !.pc = "l192"])
            /\ UNCHANGED << wgMain, wgConn >>
       ELSE /\ Set(i, Return(Bump(conns[i], "fail")))
            /\ ConnDone(i)
    /\ UNCHANGED << cfg, Shutdown, Active, Count, LogChan, TimeChan, monitors,
                    mainPc, benchPc, lanePc, wgBench, wgMon >>

\* b.LogChan <- fmt.Sprintf("# %s\n", err); return
ConnFailLog(i) ==
    /\ At(i, "l192")
    /\ CanSend(LogChan)
    /\ IF LogChan.closed
       THEN /\ Set(i, [conns[i] EXCEPT !.pc = "panic"])
            /\ UNCHANGED << LogChan, wgMain, wgConn >>
       ELSE /\ LogChan' = Send(LogChan, [kind |-> "#", count |-> 0, active |-> 0, dur |-> 0])
            /\ Set(i, Return(Bump(conns[i], "log")))
            /\ ConnDone(i)
    /\ UNCHANGED << cfg, Shutdown, counters, TimeChan, monitors,
                    mainPc, benchPc, lanePc, wgBench, wgMon >>

\* atomic.AddInt32(&b.Active, 1); conn.Write(b.Env)
Connected(i) ==
    /\ At(i, "l199")
    /\ Active' = Active + 1
    /\ Set(i, [Bump(conns[i], "inc") EXCEPT
                 !.io = Append(@, Ev("tx", EnvBlock)),
                 !.pc = LoopHead(conns[i])])
    /\ UNCHANGED << cfg, Shutdown, Count, Fail, LogChan, TimeChan, monitors, engine, wgConn >>

\* Variant of Scan: HANGUP is not recognised and is answered as a data line.
Scan_HangupAsData(i) ==
    /\ At(i, "loop")
    /\ \E in \in PeerSends :
         /\ (~HasScript /\ in # EOF /\ classify(in) = "Data") => conns[i].idx < LineBound
         /\ IF in = EOF
            THEN Set(i, [conns[i] EXCEPT !.pc = "l260"])
            ELSE Set(i, [conns[i] EXCEPT
                   !.line = in,
                   !.io = CASE classify(in) = "Failure" ->
                                 @ \o << Ev("rx", in), Ev(CloseEv, "") >>
                            [] OTHER -> Append(@, Ev("rx", in)),
                   !.pc = CASE classify(in) = "Failure" -> "l214"
                            [] OTHER -> "l225"])
    /\ UNCHANGED << cfg, Shutdown, counters, LogChan, TimeChan, monitors, engine, wgConn >>

\* Variant of Scan: the end of the stream is handled like FAILURE.
Scan_EofAsFailure(i) ==
    /\ At(i, "loop")
    /\ \E in \in PeerSends :
         /\ (~HasScript /\ in # EOF /\ classify(in) = "Data") => conns[i].idx < LineBound
         /\ IF in = EOF
            THEN Set(i, [conns[i] EXCEPT !.pc = "l214"])
            ELSE Set(i, [conns[i] EXCEPT
                   !.line = in,
                   !.io = CASE classify(in) = "Failure" ->
                                 @ \o << Ev("rx", in), Ev(CloseEv, "") >>
                            [] classify(in) = "Hangup" ->
                                 @ \o << Ev("rx", in), Ev("tx", hangupReply) >>
                            [] OTHER -> Append(@, Ev("rx", in)),
                   !.pc = CASE classify(in) = "Failure" -> "l214"
                            [] classify(in) = "Hangup" -> "l260"
                            [] OTHER -> "l225"])
    /\ UNCHANGED << cfg, Shutdown, counters, LogChan, TimeChan, monitors, engine, wgConn >>

\* Variant of Scan: once the stop flag is set the connection is shut and the
\* read returns the end of the stream.
Scan_StopAborts(i) ==
    /\ At(i, "loop")
    /\ \E in \in IF Shutdown = 0 THEN PeerSends ELSE {EOF} :
         /\ (~HasScript /\ in # EOF /\ classify(in) = "Data") => conns[i].idx < LineBound
         /\ IF in = EOF
            THEN Set(i, [conns[i] EXCEPT !.pc = "l260"])
            ELSE Set(i, [conns[i] EXCEPT
                   !.line = in,
                   !.io = CASE classify(in) = "Failure" ->
                                 @ \o << Ev("rx", in), Ev(CloseEv, "") >>
                            [] classify(in) = "Hangup" ->
                                 @ \o << Ev("rx", in), Ev("tx", hangupReply) >>
                            [] OTHER -> Append(@, Ev("rx", in)),
                   !.pc = CASE classify(in) = "Failure" -> "l214"
                            [] classify(in) = "Hangup" -> "l260"
                            [] OTHER -> "l225"])
    /\ UNCHANGED << cfg, Shutdown, counters, LogChan, TimeChan, monitors, engine, wgConn >>

\* scanner.Scan() and the two comparisons of scanner.Text(): end of stream
\* leaves the loop, FAILURE closes the connection, HANGUP is acknowledged
Scan(i) ==
    /\ At(i, "loop")
    /\ \E in \in PeerSends :
         /\ (~HasScript /\ in # EOF /\ classify(in) = "Data") => conns[i].idx < LineBound
         /\ IF in = EOF
            THEN Set(i, [conns[i] EXCEPT !.pc = "l260"])
            ELSE Set(i, [conns[i] EXCEPT
                   !.line = in,
                   !.io = CASE classify(in) = "Failure" ->
                                 @ \o << Ev("rx", in), Ev(CloseEv, "") >>
                            [] classify(in) = "Hangup" ->
                                 @ \o << Ev("rx", in), Ev("tx", hangupReply) >>
                            [] OTHER -> Append(@, Ev("rx", in)),
                   !.pc = CASE classify(in) = "Failure" -> "l214"
                            [] classify(in) = "Hangup" -> "l260"
                            [] OTHER -> "l225"])
    /\ UNCHANGED << cfg, Shutdown, counters, LogChan, TimeChan, monitors, engine, wgConn >>

\* Variant of FailCount: the failed exchange is counted as a completed session.
FailCount_AsCompleted(i) ==
    /\ At(i, "l214")
    /\ Count' = Count + 1
    /\ Set(i, [Bump(conns[i], "count") EXCEPT !.pc = "l215"])
    /\ UNCHANGED << cfg, Shutdown, Active, Fail, LogChan, TimeChan, monitors, engine, wgConn >>

\* FAILURE: atomic.AddUint32(&b.Fail, 1)
FailCount(i) ==
    /\ At(i, "l214")
    /\ Fail' = Fail + 1
    /\ Set(i, [Bump(conns[i], "fail") EXCEPT !.pc = "l215"])
    /\ UNCHANGED << cfg, Shutdown, Active, Count, LogChan, TimeChan, monitors, engine, wgConn >>

\* Variant of FailDec: the session returns without decrementing Active.
FailDec_NoDec(i) ==
    /\ At(i, "l215")
    /\ Set(i, Return(conns[i]))
    /\ ConnDone(i)
    /\ UNCHANGED << cfg, Shutdown, counters, LogChan, TimeChan, monitors,
                    mainPc, benchPc, lanePc, wgBench, wgMon >>

\* Variant of FailDec: the return is missing and the session goes on to the
\* completion path.
FailDec_FallThrough(i) ==
    /\ At(i, "l215")
    /\ Active' = Active - 1
    /\ Set(i, [Bump(conns[i], "dec") EXCEPT !.pc = "l260"])
    /\ UNCHANGED << cfg, Shutdown, Count, Fail, LogChan, TimeChan, monitors, engine, wgConn >>

\* FAILURE: atomic.AddInt32(&b.Active, -1); return
FailDec(i) ==
    /\ At(i, "l215")
    /\ Active' = Active - 1
    /\ Set(i, Return(Bump(conns[i], "dec")))
    /\ ConnDone(i)
    /\ UNCHANGED << cfg, Shutdown, Count, Fail, LogChan, TimeChan, monitors,
                    mainPc, benchPc, lanePc, wgBench, wgMon >>

\* Variant of Reply: the reply is written first and the delay follows it.
Reply_WriteThenSleep(i) ==
    /\ At(i, "l225")
    /\ LET c == [conns[i] EXCEPT
                   !.io = @ \o << Ev("tx", ReplyMsg(conns[i])),
                                  Ev(SleepEv, ReplyDelay(conns[i])) >>,
                   !.idx = @ + 1,
                   !.line = ""]
       IN Set(i, [c EXCEPT !.pc = LoopHead(c)])
    /\ UNCHANGED << cfg, Shutdown, counters, LogChan, TimeChan, monitors, engine, wgConn >>

\* time.Sleep(delay); conn.Write(reply); next iteration
Reply(i) ==
    /\ At(i, "l225")
    /\ LET c == [conns[i] EXCEPT
                   !.io = @ \o << Ev(SleepEv, ReplyDelay(conns[i])),
                                  Ev("tx", ReplyMsg(conns[i])) >>,
                   !.idx = @ + 1,
                   !.line = ""]
       IN Set(i, [c EXCEPT !.pc = LoopHead(c)])
    /\ UNCHANGED << cfg, Shutdown, counters, LogChan, TimeChan, monitors, engine, wgConn >>

\* conn.Close(); elapsed := time.Since(start)
CloseConn(i) ==
    /\ At(i, "l260")
    /\ \E d \in 1..MaxElapsed :
         Set(i, [conns[i] EXCEPT !.io = Append(@, Ev(CloseEv, "")), !.dur = d, !.pc = "l262"])
    /\ UNCHANGED << cfg, Shutdown, counters, LogChan, TimeChan, monitors, engine, wgConn >>

\* Variant of SendTime: when the channel has no room the duration is dropped
\* and the session goes on.
SendTime_DropWhenFull(i) ==
    /\ At(i, "l262")
    /\ IF CanSend(TimeChan) /\ ~TimeChan.closed
       THEN /\ TimeChan' = Send(TimeChan, conns[i].dur)
            /\ Set(i, [Bump(conns[i], "sample") EXCEPT !.pc = "l263"])
       ELSE /\ Set(i, [conns[i] EXCEPT !.pc = "l263"])
            /\ UNCHANGED TimeChan
    /\ UNCHANGED << cfg, Shutdown, counters, LogChan, monitors, engine, wgConn >>

\* b.TimeChan <- elapsed.Nanoseconds()
SendTime(i) ==
    /\ At(i, "l262")
    /\ CanSend(TimeChan)
    /\ IF TimeChan.closed
       THEN /\ Set(i, [conns[i] EXCEPT !.pc = "panic"])
            /\ UNCHANGED TimeChan
       ELSE /\ TimeChan' = Send(TimeChan, conns[i].dur)
            /\ Set(i, [Bump(conns[i], "sample") EXCEPT !.pc = "l263"])
    /\ UNCHANGED << cfg, Shutdown, counters, LogChan, monitors, engine, wgConn >>

\* atomic.AddInt32(&b.Active, -1)
DecActive(i) ==
    /\ At(i, "l263")
    /\ Active' = Active - 1
    /\ Set(i, [Bump(conns[i], "dec") EXCEPT !.pc = "l264"])
    /\ UNCHANGED << cfg, Shutdown, Count, Fail, LogChan, TimeChan, monitors, engine, wgConn >>

\* Variant of IncCount: the load and the store of the increment are separate,
\* so of two sessions incrementing together one update is lost.
IncCount_Racy(i) ==
    /\ At(i, "l264")
    /\ Count' = IF \E j \in Ids : j # i /\ conns[j].pc = "l264" THEN Count ELSE Count + 1
    /\ IF cfg.debug
       THEN /\ Set(i, [Bump(conns[i], "count") EXCEPT !.pc = "l266"])
            /\ UNCHANGED << wgMain, wgConn >>
       ELSE /\ Set(i, Return(Bump(conns[i], "count")))
            /\ ConnDone(i)
    /\ UNCHANGED << cfg, Shutdown, Active, Fail, LogChan, TimeChan, monitors,
                    mainPc, benchPc, lanePc, wgBench, wgMon >>

\* atomic.AddUint32(&b.Count, 1); without -debug the function returns
IncCount(i) ==
    /\ At(i, "l264")
    /\ Count' = Count + 1
    /\ IF cfg.debug
       THEN /\ Set(i, [Bump(conns[i], "count") EXCEPT !.pc = "l266"])
            /\ UNCHANGED << wgMain, wgConn >>
       ELSE /\ Set(i, Return(Bump(conns[i], "count")))
            /\ ConnDone(i)
    /\ UNCHANGED << cfg, Shutdown, Active, Fail, LogChan, TimeChan, monitors,
                    mainPc, benchPc, lanePc, wgBench, wgMon >>

\* b.LogChan <- fmt.Sprintf("%d,%d,%d\n", Count, Active, elapsed); return
LogCompleted(i) ==
    /\ At(i, "l266")
    /\ CanSend(LogChan)
    /\ IF LogChan.closed
       THEN /\ Set(i, [conns[i] EXCEPT !.pc = "panic"])
            /\ UNCHANGED << LogChan, wgMain, wgConn >>
       ELSE /\ LogChan' = Send(LogChan, [kind |-> "csv", count |-> Count, active |-> Active,
                                         dur |-> conns[i].dur])
            /\ Set(i, Return(Bump(conns[i], "log")))
            /\ ConnDone(i)
    /\ UNCHANGED << cfg, Shutdown, counters, TimeChan, monitors,
                    mainPc, benchPc, lanePc, wgBench, wgMon >>

\* any step of session i
agiConnection(i) ==
    \/ Dial(i) \/ ConnFail(i) \/ ConnFailLog(i) \/ Connected(i)
    \/ Scan(i) \/ FailCount(i) \/ FailDec(i) \/ Reply(i)
    \/ CloseConn(i) \/ SendTime(i) \/ DecActive(i) \/ IncCount(i) \/ LogCompleted(i)

\* ------------------------------------------------------------ monitors
\* (avg*(sessions-1) + dur) / sessions, on int64
Fold(avg, n, dur) == (avg * (n - 1) + dur) \div n

\* Variant of Wrap: the counter is reset one sample late.
Wrap_OffByOne(n) == IF n > Window THEN 0 ELSE n

\* if sessions >= 10000 { sessions = 0 }
Wrap(n) == IF n >= Window THEN 0 ELSE n

\* for dur := range b.TimeChan: one iteration
CalcRecv ==
    /\ Running
    /\ calcPc = "l286"
    /\ CanRecv(TimeChan)
    /\ LET dur == Head(TimeChan.buf)
       IN /\ AvrDur' = Fold(AvrDur, sessions + 1, dur)
          /\ sessions' = Wrap(sessions + 1)
          /\ folded' = Append(folded, dur)
    /\ TimeChan' = Recv(TimeChan)
    /\ UNCHANGED << cfg, Shutdown, counters, LogChan, logFile, calcPc, logPc, conPc,
                    engine, wgConn, conns >>

\* Variant of CalcDone: the range ends as soon as the channel is closed.
CalcDone_NoDrain ==
    /\ Running
    /\ calcPc = "l286"
    /\ TimeChan.closed
    /\ calcPc' = "done"
    /\ wgMon' = wgMon - 1
    /\ UNCHANGED << cfg, Shutdown, counters, LogChan, TimeChan, AvrDur, sessions, folded,
                    logFile, logPc, conPc, mainPc, benchPc, lanePc, wgMain, wgBench,
                    wgConn, conns >>

\* the range ends when the channel is closed and empty; deferred wg.Done()
CalcDone ==
    /\ Running
    /\ calcPc = "l286"
    /\ Drained(TimeChan)
    /\ calcPc' = "done"
    /\ wgMon' = wgMon - 1
    /\ UNCHANGED << cfg, Shutdown, counters, LogChan, TimeChan, AvrDur, sessions, folded,
                    logFile, logPc, conPc, mainPc, benchPc, lanePc, wgMain, wgBench,
                    wgConn, conns >>

\* for logMsg := range b.LogChan { b.Logger.WriteString(logMsg) }
LogRecv ==
    /\ Running
    /\ logPc = "l277"
    /\ CanRecv(LogChan)
    /\ logFile' = Append(logFile, Head(LogChan.buf).kind)
    /\ LogChan' = Recv(LogChan)
    /\ UNCHANGED << cfg, Shutdown, counters, TimeChan, AvrDur, sessions, folded, calcPc,
                    logPc, conPc, engine, wgConn, conns >>

LogDone ==
    /\ Running
    /\ logPc = "l277"
    /\ Drained(LogChan)
    /\ logPc' = "done"
    /\ wgMon' = wgMon - 1
    /\ UNCHANGED << cfg, Shutdown, counters, LogChan, TimeChan, AvrDur, sessions, folded,
                    logFile, calcPc, conPc, mainPc, benchPc, lanePc, wgMain, wgBench,
                    wgConn, conns >>

\* consoleOutput: if atomic.LoadUint32(&b.Shutdown) != 0
ConsoleStopping ==
    /\ Running
    /\ conPc = "l311"
    /\ Shutdown # 0
    /\ conPc' = "l313"
    /\ UNCHANGED << cfg, Shutdown, counters, LogChan, TimeChan, AvrDur, sessions, folded,
                    logFile, calcPc, logPc, engine, wgConn, conns >>

\* consoleOutput: if atomic.LoadInt32(&b.Active) <= 0 { break }, else sleep and loop
ConsoleActive ==
    /\ Running
    /\ conPc = "l313"
    /\ IF Active <= 0
       THEN /\ conPc' = "done"
            /\ wgMon' = wgMon - 1
       ELSE /\ conPc' = "l311"
            /\ UNCHANGED wgMon
    /\ UNCHANGED << cfg, Shutdown, counters, LogChan, TimeChan, AvrDur, sessions, folded,
                    logFile, calcPc, logPc, mainPc, benchPc, lanePc, wgMain, wgBench,
                    wgConn, conns >>

\* ------------------------------------------------------------ specification
Next ==
    \/ MainSingle \/ MainBench \/ MainStop \/ MainExit
    \/ BenchSpawn \/ BenchWait \/ BenchCloseLog \/ BenchCloseTime \/ BenchDone
    \/ \E l \in DOMAIN lanePc : LaneCheck(l)
    \/ \E l \in DOMAIN lanePc : LaneTick(l)
    \/ \E l \in DOMAIN lanePc : LaneWait(l)
    \/ \E i \in Ids : Dial(i)
    \/ \E i \in Ids : ConnFail(i)
    \/ \E i \in Ids : ConnFailLog(i)
    \/ \E i \in Ids : Connected(i)
    \/ \E i \in Ids : Scan(i)
    \/ \E i \in Ids : FailCount(i)
    \/ \E i \in Ids : FailDec(i)
    \/ \E i \in Ids : Reply(i)
    \/ \E i \in Ids : CloseConn(i)
    \/ \E i \in Ids : SendTime(i)
    \/ \E i \in Ids : DecActive(i)
    \/ \E i \in Ids : IncCount(i)
    \/ \E i \in Ids : LogCompleted(i)
    \/ CalcRecv \/ CalcDone \/ LogRecv \/ LogDone
    \/ ConsoleStopping \/ ConsoleActive

Spec == Init /\ [][Next]_vars

\* calcAvrg on its own, from the state agiBench leaves with one lane and no
\* -debug: the workers are replaced by a feeder that puts up to MaxFeed
\* arbitrary durations on the duration channel.
InitAvrg ==
    /\ cfg = [single |-> FALSE, debug |-> FALSE, sess |-> 1, Payload |-> Nil]
    /\ Shutdown = 0
    /\ Active = 0
    /\ Count = 0
    /\ Fail = 0
    /\ AvrDur = 0
    /\ LogChan = MakeChan(cfg.sess)
    /\ TimeChan = MakeChan(cfg.sess)
    /\ logFile = << >>
    /\ mainPc = "l108"
    /\ benchPc = "l170"
    /\ lanePc = << "l151" >>
    /\ wgMain = 1
    /\ wgBench = 1
    /\ wgMon = 2
    /\ wgConn = << 0 >>
    /\ conns = << >>
    /\ calcPc = "l286"
    /\ sessions = 0
    /\ folded = << >>
    /\ logPc = "off"
    /\ conPc = "l311"

Feed ==
    /\ Len(folded) + Len(TimeChan.buf) < MaxFeed
    /\ CanSend(TimeChan)
    /\ \E d \in 1..MaxDur : TimeChan' = Send(TimeChan, d)
    /\ UNCHANGED << cfg, Shutdown, counters, LogChan, monitors, engine, wgConn, conns >>

NextAvrg == Feed \/ CalcRecv

SpecAvrg == InitAvrg /\ [][NextAvrg]_vars

\* A benchmark of one lane whose sinks are behind: two sessions have completed
\* and returned, their durations (and with -debug their records) fill the
\* channels, calcAvrg and logger have not run yet, and the lane waits for its
\* next tick.
Finished == [NewConn(1) EXCEPT
               !.pc = "done",
               !.rep = [NoRep EXCEPT !.inc = 1, !.sample = 1, !.dec = 1, !.count = 1,
                                     !.log = IF cfg.debug THEN 1 ELSE 0]]

InitFull ==
    /\ cfg \in [single : {FALSE}, debug : BOOLEAN, sess : {1}, Payload : {Nil}]
    /\ Shutdown = 0
    /\ Active = 0
    /\ Count = 2
    /\ Fail = 0
    /\ AvrDur = 0
    /\ LogChan = [MakeChan(cfg.sess) EXCEPT
                    !.buf = IF cfg.debug
                            THEN << [kind |-> "csv", count |-> 1, active |-> 0, dur |-> 1],
                                    [kind |-> "csv", count |-> 2, active |-> 0, dur |-> 1] >>
                            ELSE << >>]
    /\ TimeChan = [MakeChan(cfg.sess) EXCEPT !.buf = << 1, 1 >>]
    /\ logFile = IF cfg.debug THEN << "#Started" >> ELSE << >>
    /\ mainPc = "l108"
    /\ benchPc = "l170"
    /\ lanePc = << "l152" >>
    /\ wgMain = 1
    /\ wgBench = 1
    /\ wgMon = IF cfg.debug THEN 3 ELSE 2
    /\ wgConn = << 0 >>
    /\ conns = << Finished, Finished >>
    /\ calcPc = "l286"
    /\ sessions = 0
    /\ folded = << >>
    /\ logPc = IF cfg.debug THEN "l277" ELSE "off"
    /\ conPc = "l311"

NextFull ==
    \/ MainStop \/ MainExit
    \/ BenchWait \/ BenchCloseLog \/ BenchCloseTime \/ BenchDone
    \/ \E l \in DOMAIN lanePc : LaneCheck(l)
    \/ \E l \in DOMAIN lanePc : LaneTick(l)
    \/ \E l \in DOMAIN lanePc : LaneWait(l)
    \/ \E i \in Ids : Dial(i)
    \/ \E i \in Ids : ConnFail(i)
    \/ \E i \in Ids : ConnFailLog(i)
    \/ \E i \in Ids : Connected(i)
    \/ \E i \in Ids : Scan(i)
    \/ \E i \in Ids : FailCount(i)
    \/ \E i \in Ids : FailDec(i)
    \/ \E i \in Ids : Reply(i)
    \/ \E i \in Ids : CloseConn(i)
    \/ \E i \in Ids : SendTime(i)
    \/ \E i \in Ids : DecActive(i)
    \/ \E i \in Ids : IncCount(i)
    \/ \E i \in Ids : LogCompleted(i)
    \/ CalcRecv \/ CalcDone \/ LogRecv \/ LogDone
    \/ ConsoleStopping \/ ConsoleActive

SpecFull == InitFull /\ [][NextFull]_vars

\* benchInit on its own: main is about to call it (line 84) with some command
\* line and some file behind -conf.
InitConf ==
    /\ cfg \in [single : {FALSE}, debug : {FALSE}, sess : {1}, Payload : {Nil},
                Env : {<< >>}, conf : ConfFiles, flags : FlagSets,
                confData : {ZeroConfig}, warned : {FALSE}]
    /\ Shutdown = 0
    /\ Active = 0
    /\ Count = 0
    /\ Fail = 0
    /\ AvrDur = 0
    /\ LogChan = MakeChan(cfg.sess)
    /\ TimeChan = MakeChan(cfg.sess)
    /\ logFile = << >>
    /\ mainPc = "l84"
    /\ benchPc = "off"
    /\ lanePc = << >>
    /\ wgMain = 1
    /\ wgBench = 0
    /\ wgMon = 0
    /\ wgConn = << >>
    /\ conns = << >>
    /\ calcPc = "off"
    /\ sessions = 0
    /\ folded = << >>
    /\ logPc = "off"
    /\ conPc = "off"

\* benchInit, lines 116-134: the file is opened and decoded; an error is
\* reported with log.Println and the function goes on
benchInitLoad ==
    /\ mainPc = "l84"
    /\ \E r \in Decode(cfg.conf) :
         cfg' = [cfg EXCEPT !.confData = r.conf, !.warned = r.err]
    /\ mainPc' = "l135"
    /\ UNCHANGED << Shutdown, counters, LogChan, TimeChan, monitors,
                    benchPc, lanePc, wgMain, wgBench, wgMon, wgConn, conns >>

\* benchInit, lines 135-137: b.Env = agiInit(confData.AgiEnv);
\* b.Payload = confData.AgiPayload; return b
benchInitEnv ==
    /\ mainPc = "l135"
    /\ cfg' = [cfg EXCEPT !.Env = agiInit(cfg.confData.AgiEnv, cfg.flags),
                          !.Payload = cfg.confData.AgiPayload]
    /\ mainPc' = "l102"
    /\ UNCHANGED << Shutdown, counters, LogChan, TimeChan, monitors,
                    benchPc, lanePc, wgMain, wgBench, wgMon, wgConn, conns >>

NextConf == benchInitLoad \/ benchInitEnv

SpecConf == InitConf /\ [][NextConf]_vars

\* The engine under the scheduling the Go runtime gives: every goroutine that
\* can take a step eventually takes one, every ticker keeps ticking and every
\* peer eventually answers; only the operator's Enter is not forced.
Fairness ==
    /\ WF_vars(MainSingle \/ MainBench \/ MainExit)
    /\ WF_vars(BenchSpawn \/ BenchWait \/ BenchCloseLog \/ BenchCloseTime \/ BenchDone)
    /\ \A l \in 1..MaxLanes :
         WF_vars(l \in DOMAIN lanePc /\ (LaneCheck(l) \/ LaneTick(l) \/ LaneWait(l)))
    /\ \A i \in 1..MaxSessions : WF_vars(i \in Ids /\ agiConnection(i))
    /\ WF_vars(CalcRecv \/ CalcDone)
    /\ WF_vars(LogRecv \/ LogDone)
    /\ WF_vars(ConsoleStopping \/ ConsoleActive)

FairSpec == Init /\ [][Next]_vars /\ Fairness

\* ------------------------------------------------------------ properties
\* agiBench has returned
Stopped == benchPc = "done"
\* the process has ended
Exited == mainPc = "exit"

RECURSIVE SumSeq(_)
SumSeq(q) == IF q = << >> THEN 0 ELSE Head(q) + SumSeq(Tail(q))

\* sessions whose connection attempt failed and was counted
ConnFailed(i) == conns[i].rep.inc = 0 /\ conns[i].pc \in {"l192", "done"}
\* sessions that read FAILURE and counted it
ExchFailed(i) == /\ conns[i].rep.inc = 1
                 /\ conns[i].rep.sample = 0
                 /\ conns[i].pc \in {"l215", "done"}
ConnFailures == Cardinality({i \in Ids : ConnFailed(i)})
ExchFailures == Cardinality({i \in Ids : ExchFailed(i)})

\* C1: Active is never negative, and it is 0 once agiBench has returned
\* (which happens only after the stop flag was set).
C1_ActiveZeroAtStopped ==
    /\ Active >= 0
    /\ Stopped => (Shutdown = 1 /\ Active = 0)

C1_Witness == Stopped /\ Count > 0 /\ Fail > 0 /\ ExchFailures > 0

\* C2: every session a lane launches is launched while the stop flag is unset.
C2_NoLaunchAfterStop == [][Len(conns') > Len(conns) => Shutdown = 0]_vars

\* C3: in benchmark mode the process ends only after the stop flag was set,
\* every lane has ended, every launched session has returned and Active is 0.
C3_ExitOnlyWhenDrained ==
    (Exited /\ ~cfg.single) =>
        /\ Shutdown = 1
        /\ Stopped
        /\ \A l \in DOMAIN lanePc : lanePc[l] = "done"
        /\ DOMAIN lanePc = 1..cfg.sess
        /\ \A i \in Ids : conns[i].pc = "done"
        /\ Active = 0

C3_Witness == Exited /\ ~cfg.single /\ Len(conns) = MaxSessions /\ Count = MaxSessions

C5_ReportedOnce ==
    /\ \A i \in Ids :
         /\ conns[i].rep.count + conns[i].rep.fail <= 1
         /\ conns[i].pc = "done" => conns[i].rep.count + conns[i].rep.fail = 1
    /\ Count + Fail <= Len(conns)
    /\ Count + Fail = Cardinality({i \in Ids : conns[i].rep.count + conns[i].rep.fail = 1})
    /\ Stopped => Count + Fail = Len(conns)

C5_Witness == Stopped /\ Len(conns) = MaxSessions /\ ConnFailures > 0 /\ Count > 0

\* C6: a failed connection attempt adds one to Fail, leaves Active and Count
\* alone, sends no duration and is not dialled again; no session is launched
\* in its place.
C6_ConnectFailure ==
    /\ [](\A i \in Ids : ConnFailed(i) =>
            conns[i].rep = [NoRep EXCEPT !.fail = 1,
                                         !.log = IF cfg.debug /\ conns[i].pc = "done"
                                                 THEN 1 ELSE 0])
    /\ [][\A i \in Ids :
            /\ (conns[i].pc = "l190" /\ conns'[i].pc # "l190") =>
                 /\ Fail' = Fail + 1
                 /\ Active' = Active
                 /\ Count' = Count
                 /\ TimeChan' = TimeChan
                 /\ Len(conns') = Len(conns)
                 /\ ConnFailed(i)'
            /\ conns[i].pc # "l187" => conns'[i].pc # "l187"]_vars

C6_Witness == \E i \in Ids : ConnFailed(i) /\ conns[i].pc = "done" /\ Fail = 1

\* C7: a session that reads FAILURE writes nothing more, closes the
\* connection, adds one to Fail and nothing to Count, sends no duration, and
\* leaves Active as it found it; with a script and without.
C7_FailureSentinel ==
    \A i \in Ids :
      /\ conns[i].line = failure =>
           /\ conns[i].pc \in {"l214", "l215"}
           /\ Len(conns[i].io) >= 2
           /\ SubSeq(conns[i].io, Len(conns[i].io) - 1, Len(conns[i].io))
                = << Ev("rx", failure), Ev(CloseEv, "") >>
           /\ conns[i].rep = [NoRep EXCEPT !.inc = 1,
                                           !.fail = IF conns[i].pc = "l215" THEN 1 ELSE 0]
      /\ (conns[i].pc = "done" /\ conns[i].rep.inc = 1 /\ conns[i].rep.fail = 1) =>
           conns[i].rep = [NoRep EXCEPT !.inc = 1, !.fail = 1, !.dec = 1]

C7_Witness ==
    \E i \in Ids : /\ conns[i].pc = "done"
                   /\ conns[i].rep = [NoRep EXCEPT !.inc = 1, !.fail = 1, !.dec = 1]
                   /\ HasScript

C9_MeanOfWindow ==
    (Len(folded) >= 1 /\ Len(folded) <= Window) =>
        AvrDur = SumSeq(folded) \div Len(folded)

Completing(c) == c.pc \in {"l260", "l262", "l263", "l264", "l266"}
\* the connection was closed at line 260
Closed(c) == c.pc \in {"l262", "l263", "l264", "l266"}
\* what the session has reported so far on the completion path
CompletingRep(c) ==
    [NoRep EXCEPT !.inc = 1,
                  !.sample = IF c.pc \in {"l263", "l264", "l266"} THEN 1 ELSE 0,
                  !.dec = IF c.pc \in {"l264", "l266"} THEN 1 ELSE 0,
                  !.count = IF c.pc = "l266" THEN 1 ELSE 0]
\* the step in which session i executes line 264
Counts(i) == conns[i].pc = "l264" /\ conns'[i].pc # "l264"

\* C11: without a script, a session that has read d data lines and then
\* HANGUP has written the handshake, then for each data line, after reading
\* it, slept ReplyDelay and written one success reply, then written one hangup
\* acknowledgment right after reading HANGUP, and then closes; it adds one to
\* Count and nothing to Fail.
C11_NoScriptHangup ==
    /\ [](\A i \in Ids :
            (~HasScript /\ conns[i].line = hangup) =>
              LET c == conns[i]
                  d == c.idx
              IN /\ Completing(c)
                 /\ Len(c.io) = 3 * d + 3 + (IF Closed(c) THEN 1 ELSE 0)
                 /\ c.io[1] = Ev("tx", EnvBlock)
                 /\ \A k \in 1..d :
                      /\ c.io[3 * k - 1].ev = "rx"
                      /\ c.io[3 * k - 1].v \in DataLines
                      /\ c.io[3 * k] = Ev(SleepEv, "ReplyDelay")
                      /\ c.io[3 * k + 1] = Ev("tx", successReply)
                 /\ c.io[3 * d + 2] = Ev("rx", hangup)
                 /\ c.io[3 * d + 3] = Ev("tx", hangupReply)
                 /\ Closed(c) => c.io[3 * d + 4] = Ev(CloseEv, "")
                 /\ c.rep = CompletingRep(c))
    /\ [][\A i \in Ids :
            (~HasScript /\ conns[i].line = hangup /\ Counts(i)) =>
                /\ Count' = Count + 1
                /\ Fail' = Fail
                /\ conns'[i].rep.count = 1
                /\ conns'[i].rep.fail = 0]_vars

C11_Witness ==
    \E i \in Ids : /\ ~HasScript
                   /\ conns[i].line = hangup
                   /\ conns[i].idx = SingleLines
                   /\ conns[i].pc = "l266"
                   /\ conns[i].io[2] = Ev("rx", "hangup")
                   /\ Count = 1

\* the messages of the script a session has written, in the order written
ScriptSent(c) ==
    SelectSeq(c.io, LAMBDA e : e.ev = "tx" /\ e.v \notin {EnvBlock, hangupReply})

\* C12: with a script of K pairs a session writes at most K script messages,
\* the k-th written being the k-th of the script, and it writes the k-th only
\* after it has read its k-th line and found it to be an ordinary one.
C12_ScriptInOrder ==
    \A i \in Ids :
      HasScript =>
        LET c == conns[i]
            K == Len(cfg.Payload.msgs)
            n == Len(ScriptSent(c))
        IN /\ n <= K
           /\ n = c.idx
           /\ \A k \in 1..n :
                /\ ScriptSent(c)[k] = Ev("tx", cfg.Payload.msgs[k].Msg \o "\n")
                /\ c.io[3 * k + 1] = ScriptSent(c)[k]
                /\ c.io[3 * k - 1].ev = "rx"
                /\ classify(c.io[3 * k - 1].v) = "Data"
                /\ Cardinality({j \in 1..(3 * k) : c.io[j].ev = "rx"}) = k

C12_Witness ==
    \E i \in Ids : /\ HasScript
                   /\ Len(cfg.Payload.msgs) = SingleScript
                   /\ Len(ScriptSent(conns[i])) = SingleScript
                   /\ conns[i].pc = "l262"

\* a write that answers a data line: successReply, or a message of the script
IsReply(e) == e.ev = "tx" /\ e.v \notin {EnvBlock, hangupReply}
\* a read of an ordinary line
IsData(e) == e.ev = "rx" /\ classify(e.v) = "Data"
\* the delay configured for the k-th reply of a session
DelayOf(k) == IF HasScript THEN ToString(cfg.Payload.msgs[k].Delay) ELSE "ReplyDelay"

\* C13: every reply to a data line is written right after a completed sleep
\* of the configured length (ReplyDelay, or the delay of the pair consumed),
\* which itself follows the read of that line; a sleep happens nowhere else:
\* HANGUP is acknowledged at once and FAILURE is followed by the close only.
C13_DelayBeforeReply ==
    \A i \in Ids :
      LET io == conns[i].io
          n == Len(io)
      IN \A j \in 1..n :
           /\ IsReply(io[j]) =>
                 /\ j >= 4
                 /\ io[j - 1] = Ev(SleepEv, DelayOf((j - 1) \div 3))
                 /\ IsData(io[j - 2])
           /\ io[j].ev = SleepEv =>
                 /\ j >= 3 /\ j < n
                 /\ IsData(io[j - 1])
                 /\ IsReply(io[j + 1])
           /\ (IsData(io[j]) /\ j < n) => io[j + 1].ev = SleepEv
           /\ io[j] = Ev("tx", hangupReply) => io[j - 1] = Ev("rx", hangup)
           /\ io[j] = Ev("rx", hangup) => (j < n /\ io[j + 1] = Ev("tx", hangupReply))
           /\ io[j] = Ev("rx", failure) =>
                 (j + 1 = n /\ io[n] = Ev(CloseEv, ""))

C13_Witness ==
    \E i \in Ids : /\ HasScript
                   /\ conns[i].pc = "l260"
                   /\ conns[i].line = hangup
                   /\ Len(conns[i].io) = 9
                   /\ conns[i].io[3] = Ev(SleepEv, "1")
                   /\ conns[i].io[6] = Ev(SleepEv, "2")
                   /\ conns[i].io[9] = Ev("tx", hangupReply)

\* the session left the reply loop because scanner.Scan() returned false:
\* it read no HANGUP, and its script, if any, was not exhausted
EndedByEof(c) ==
    /\ Completing(c)
    /\ c.line # hangup
    /\ HasScript => c.idx < Len(cfg.Payload.msgs)

\* C14: a session whose read in the reply loop meets the end of the stream
\* goes to the completion path; there it has read no sentinel, and it closes,
\* sends its one duration, takes one from Active and adds one to Count, in
\* that order, and leaves Fail alone.
C14_EofCompletes ==
    /\ [](\A i \in Ids :
            EndedByEof(conns[i]) =>
              LET c == conns[i]
              IN /\ c.rep = CompletingRep(c)
                 /\ \A j \in 1..Len(c.io) :
                      c.io[j].ev = "rx" => classify(c.io[j].v) = "Data"
                 /\ Closed(c) => c.io[Len(c.io)] = Ev(CloseEv, ""))
    /\ [][\A i \in Ids :
            LET c == conns[i]
                d == conns'[i]
            IN /\ (c.pc = "loop" /\ d.pc # "loop" /\ d.io = c.io) =>
                     (d.pc = "l260" /\ EndedByEof(d) /\ counters' = counters)
               /\ (EndedByEof(c) /\ d # c) =>
                     /\ Fail' = Fail
                     /\ c.pc = "l260" =>
                           (d.pc = "l262" /\ counters' = counters /\ TimeChan' = TimeChan)
                     /\ c.pc = "l262" =>
                           /\ d.pc = "l263"
                           /\ TimeChan' = Send(TimeChan, c.dur)
                           /\ counters' = counters
                     /\ c.pc = "l263" =>
                           (d.pc = "l264" /\ Active' = Active - 1 /\ Count' = Count)
                     /\ c.pc = "l264" =>
                           /\ d.pc = IF cfg.debug THEN "l266" ELSE "done"
                           /\ Count' = Count + 1
                           /\ Active' = Active
                           /\ d.rep = [NoRep EXCEPT !.inc = 1, !.sample = 1,
                                                    !.dec = 1, !.count = 1]]_vars

C14_Witness ==
    \E i \in Ids : /\ EndedByEof(conns[i])
                   /\ ~cfg.single
                   /\ ~HasScript
                   /\ conns[i].idx = MaxLines
                   /\ conns[i].pc = "l264"
                   /\ Len(folded) + Len(TimeChan.buf) >= 1

\* ---- the samples of the average
\* the sessions that have sent their duration
Sampled == {i \in Ids : conns[i].rep.sample = 1}

\* C15: a session sends at most one duration, and only on the completion
\* path: a session that failed to connect or read FAILURE has sent none.  The
\* samples folded and those still in the channel are exactly the ones sent,
\* and once agiBench has returned none is left in the channel: the number of
\* samples folded equals Count.
C15_SamplesFromCompleted ==
    /\ \A i \in Ids :
         /\ conns[i].rep.sample <= 1
         /\ conns[i].rep.sample = 1 =>
               /\ conns[i].rep.inc = 1
               /\ conns[i].rep.fail = 0
               /\ conns[i].pc \in {"l263", "l264", "l266", "done"}
         /\ conns[i].rep.fail = 1 => conns[i].rep.sample = 0
         /\ conns[i].rep.count = 1 => conns[i].rep.sample = 1
    /\ Len(folded) + Len(TimeChan.buf) = Cardinality(Sampled)
    /\ Stopped =>
         /\ Len(TimeChan.buf) = 0
         /\ Len(folded) = Count

C15_Witness ==
    /\ Stopped
    /\ Len(folded) = 1
    /\ Count = 1
    /\ ConnFailures + ExchFailures = 1

\* ---- the counters under concurrency
\* the number of sessions that have executed the update f
Events(f) == Cardinality({i \in Ids : conns[i].rep[f] = 1})

\* calcAvrg applied to the samples q one at a time, from average avg and
\* sample counter n
RECURSIVE FoldSeq(_, _, _)
FoldSeq(q, avg, n) ==
    IF q = << >> THEN avg
    ELSE FoldSeq(Tail(q), Fold(avg, n + 1, Head(q)), Wrap(n + 1))

\* C16: no update of a counter is lost, whatever the interleaving of the
\* sessions: Count, Fail and Active are at all times the numbers of the
\* increments and decrements executed, so at the return of agiBench Count and
\* Fail account for every session and Active is 0; and AvrDur is the samples
\* folded one at a time in the order calcAvrg received them.
C16_NoLostUpdate ==
    /\ \A i \in Ids : \A f \in DOMAIN NoRep : conns[i].rep[f] \in {0, 1}
    /\ Count = Events("count")
    /\ Fail = Events("fail")
    /\ Active = Events("inc") - Events("dec")
    /\ AvrDur = FoldSeq(folded, 0, 0)
    /\ Stopped =>
         /\ Count + Fail = Len(conns)
         /\ Events("inc") = Events("dec")
         /\ Events("sample") = Count

C16_Witness ==
    /\ Len(conns) = 2
    /\ conns[1].pc = "l264"
    /\ conns[2].pc = "l266"
    /\ Count = 1
    /\ Active = 0
    /\ Len(folded) = 2

\* ---- the lanes
\* the sessions of lane l that have not returned
InFlight(l) == {i \in Ids : conns[i].lane = l /\ conns[i].pc # "done"}

\* C17: a lane that waits for its tick launches at that tick, whatever its
\* earlier sessions are doing, and the launch adds exactly one session, held
\* by that lane; nothing in the lane bounds the number of its sessions in
\* flight (the witness has as many of one lane as the exploration starts, all
\* waiting for a peer that does not answer).
C17_LaunchEveryTick ==
    /\ [](\A l \in DOMAIN lanePc : lanePc[l] = "l152" => ENABLED LaneTick(l))
    /\ [][\A l \in DOMAIN lanePc :
            (lanePc[l] = "l152" /\ lanePc'[l] # "l152") =>
                /\ conns' = Append(conns, NewConn(l))
                /\ wgConn'[l] = wgConn[l] + 1
                /\ InFlight(l)' = InFlight(l) \cup {Len(conns) + 1}
                /\ lanePc'[l] = "l151"]_vars

C17_Witness ==
    /\ Shutdown = 0
    /\ \E l \in DOMAIN lanePc :
         /\ Cardinality(InFlight(l)) = MaxSessions
         /\ \A i \in InFlight(l) : conns[i].pc = "loop"

\* ---- sessions and the stop flag
\* the statements at which a session may have to wait for something other
\* than its peer: the two channel sends
CanStep(c) ==
    CASE c.pc = "l262" -> CanSend(TimeChan)
      [] c.pc \in {"l192", "l266"} -> CanSend(LogChan)
      [] c.pc \in {"done", "panic"} -> FALSE
      [] OTHER -> TRUE

\* C18: the stop flag is nothing to a session.  Setting it changes no
\* session, counter or channel; a session changes only by a step of its own
\* code; whether a session can step depends on its position and the room in
\* the channels alone; and a session waiting for its peer reads and
\* classifies every answer the peer may give (end of stream, FAILURE, HANGUP,
\* an ordinary line), with the flag set as with the flag unset.
C18_StopLeavesSessions ==
    /\ [](\A i \in Ids :
            /\ ENABLED agiConnection(i) <=> CanStep(conns[i])
            /\ conns[i].pc = "loop" =>
                 /\ ENABLED (agiConnection(i) /\ conns'[i].pc = "l260"
                                /\ conns'[i].io = conns[i].io)
                 /\ ENABLED (agiConnection(i) /\ conns'[i].pc = "l214"
                                /\ conns'[i].line = failure)
                 /\ ENABLED (agiConnection(i) /\ conns'[i].pc = "l260"
                                /\ conns'[i].line = hangup)
                 /\ (HasScript \/ conns[i].idx < LineBound) =>
                      ENABLED (agiConnection(i) /\ conns'[i].pc = "l225"))
    /\ [][/\ Shutdown' # Shutdown =>
               UNCHANGED << conns, counters, LogChan, TimeChan, wgConn >>
          /\ \A i \in Ids : conns'[i] # conns[i] => agiConnection(i)]_vars

C18_Witness ==
    /\ Shutdown = 1
    /\ DOMAIN lanePc # {}
    /\ \A l \in DOMAIN lanePc : lanePc[l] = "l156"
    /\ \E i, j \in Ids : /\ conns[i].pc = "l225"
                         /\ conns[j].pc = "loop"
                         /\ conns[j].idx = 1

\* ---- the channels as a brake
\* a send on ch has to wait
Full(ch) == ~ch.closed /\ Len(ch.buf) >= ch.cap

\* C19 (as claimed): a session has updated none of Active (down), Count and
\* Fail while one of its channel sends is still to be accepted.
C19_UpdatesAfterAllSends ==
    \A i \in Ids :
      conns[i].pc \in {"l192", "l262", "l266"} =>
        conns[i].rep.dec + conns[i].rep.count + conns[i].rep.fail = 0

\* C19 (amended): the send of the duration comes before the updates and the
\* send of the log record after them.  A session whose duration finds the
\* channel full waits, still counted in Active and not in Count, and no
\* session takes itself from Active or adds itself to Count before its
\* duration was accepted; a session sends its log record only after it has
\* updated the counters, and waits there if the log channel is full.
C19_DurationSendFirst ==
    \A i \in Ids :
      LET c == conns[i]
      IN /\ (c.pc = "l262" /\ Full(TimeChan)) =>
              /\ ~ENABLED agiConnection(i)
              /\ c.rep = [NoRep EXCEPT !.inc = 1]
              /\ Active >= 1
         /\ c.pc = "l262" => c.rep = [NoRep EXCEPT !.inc = 1]
         /\ (c.rep.dec = 1 /\ c.rep.fail = 0) => c.rep.sample = 1
         /\ c.rep.count = 1 => (c.rep.sample = 1 /\ c.rep.dec = 1)
         /\ c.pc = "l266" =>
              /\ c.rep = [NoRep EXCEPT !.inc = 1, !.sample = 1, !.dec = 1, !.count = 1]
              /\ Full(LogChan) => ~ENABLED agiConnection(i)
         /\ c.pc = "l192" =>
              /\ c.rep = [NoRep EXCEPT !.fail = 1]
              /\ Full(LogChan) => ~ENABLED agiConnection(i)
         /\ c.rep.log = 1 => c.rep.count + c.rep.fail = 1

C19_Witness ==
    /\ Len(conns) = 3
    /\ conns[3].pc = "l266"
    /\ Full(LogChan)
    /\ Len(folded) >= 1
    /\ Count = 3
    /\ Active = 0

\* ---- -single
\* C20: with -single one session is run and no lane, calcAvrg, logger or
\* consoleOutput is started; the stop flag is never set; and the process
\* ends once that session has returned, for every value of -sess.
C20_SingleTerminates ==
    /\ [](cfg.single =>
            /\ Len(conns) <= 1
            /\ lanePc = << >>
            /\ benchPc = "off"
            /\ calcPc = "off" /\ logPc = "off" /\ conPc = "off"
            /\ Shutdown = 0
            /\ Exited => (Len(conns) = 1 /\ conns[1].pc = "done" /\ Count + Fail = 1))
    /\ cfg.single ~> Exited

\* ---- the log file
\* the session records written to the file, without the header and the footer
LogRecords == SelectSeq(logFile, LAMBDA r : r \notin {"#Started", "#Stopped"})

\* C21: with -debug every session that has returned has sent exactly one
\* record, and when the process ends every record sent has been written to
\* the file and none is left in the channel; in a benchmark and in -single.
C21_EveryOutcomeLogged ==
    cfg.debug =>
      /\ \A i \in Ids : conns[i].pc = "done" => conns[i].rep.log = 1
      /\ Exited =>
           /\ Len(LogChan.buf) = 0
           /\ Len(LogRecords) = Events("log")

\* ---- classification of the lines read
\* C22: a line is a hangup iff it is exactly "HANGUP" and a failure iff it is
\* exactly "FAILURE"; every other line, the empty one, "hangup", "Failure"
\* and "HANGUP FAILURE" among them, is ordinary data: the session that reads
\* it goes on to the delay and writes a reply.
C22_ExactClassification ==
    /\ [](\A line \in Lines :
            /\ classify(line) = "Hangup" <=> line = "HANGUP"
            /\ classify(line) = "Failure" <=> line = "FAILURE"
            /\ classify(line) = "Data" <=> line \notin {"HANGUP", "FAILURE"})
    /\ [][\A i \in Ids :
            LET c == conns[i]
                d == conns'[i]
            IN /\ (c.pc = "loop" /\ d.pc # "loop" /\ d.io # c.io) =>
                     LET in == d.io[Len(c.io) + 1]
                     IN /\ in.ev = "rx"
                        /\ in.v = "HANGUP" <=>
                              (d.pc = "l260" /\ d.io[Len(d.io)] = Ev("tx", hangupReply))
                        /\ in.v = "FAILURE" <=>
                              (d.pc = "l214" /\ d.io[Len(d.io)] = Ev(CloseEv, ""))
                        /\ in.v \notin {"HANGUP", "FAILURE"} <=>
                              (d.pc = "l225" /\ Len(d.io) = Len(c.io) + 1)
               /\ (c.pc = "l225" /\ d # c) =>
                     (Len(d.io) = Len(c.io) + 2 /\ IsReply(d.io[Len(d.io)]))]_vars

C22_Witness ==
    \E i \in Ids : /\ ~HasScript
                   /\ Len(conns[i].io) = 10
                   /\ conns[i].io[2] = Ev("rx", "")
                   /\ conns[i].io[5] = Ev("rx", "hangup")
                   /\ conns[i].io[8] = Ev("rx", "HANGUP FAILURE")
                   /\ conns[i].io[10] = Ev("tx", successReply)

\* ---- the handshake
\* the session is past line 202: it is in the reply loop or beyond it
Exchanging(c) == c.pc \in {"loop", "l225", "l214", "l215", "l260", "l262", "l263", "l264", "l266"}

\* C23: a connected session writes the handshake once, as the first thing on
\* the connection, in the step that follows its increment of Active: before
\* any read and any reply; a session that is connecting or has failed to
\* connect has written nothing.
C23_HandshakeFirst ==
    /\ [](\A i \in Ids :
            LET c == conns[i]
            IN /\ Exchanging(c) =>
                    /\ Len(c.io) >= 1
                    /\ c.io[1] = Ev("tx", EnvBlock)
                    /\ \A j \in 2..Len(c.io) : c.io[j] # Ev("tx", EnvBlock)
                    /\ c.rep.inc = 1
               /\ c.rep.inc = 0 => c.io = << >>
               /\ c.pc \in {"l187", "l190", "l192", "l199"} => c.io = << >>)
    /\ [][\A i \in Ids :
            LET c == conns[i]
                d == conns'[i]
            IN (c.io = << >> /\ d.io # << >>) =>
                 /\ c.pc = "l199"
                 /\ d.io = << Ev("tx", EnvBlock) >>
                 /\ Active' = Active + 1
                 /\ c.rep.inc = 0 /\ d.rep.inc = 1]_vars

C23_Witness ==
    \E i, j \in Ids : /\ conns[i].pc = "l225"
                      /\ Len(conns[i].io) = 2
                      /\ conns[i].io[1] = Ev("tx", EnvBlock)
                      /\ conns[j].pc = "l192"
                      /\ conns[j].io = << >>
                      /\ Active = 1

\* ---- the handshake block
\* the bytes of a write: conn.Write(b.Env) writes the block made by benchInit
Written(e) == IF e.v = EnvBlock THEN cfg.Env ELSE << e.v >>

\* C24: two sessions of a run write handshake blocks that differ (in their
\* unique id field).
C24_UniqueIdPerSession ==
    \A i, j \in Ids :
      (i # j /\ Exchanging(conns[i]) /\ Exchanging(conns[j])) =>
        Written(conns[i].io[1]) # Written(conns[j].io[1])

\* benchInit has returned
Built == mainPc = "l102" /\ "confData" \in DOMAIN cfg

\* C25: a loaded environment list, the empty one included, gives the block
\* of its lines, as they are and in order, and one empty line after them;
\* without a loaded list the block is the default one, a function of the
\* command line alone, whose only empty line is the last.
C25_HandshakeBlock ==
    Built =>
      LET env == cfg.confData.AgiEnv
          B == cfg.Env
          fl == cfg.flags
      IN /\ Len(B) >= 1
         /\ B[Len(B)] = ""
         /\ ~env.nil =>
              /\ Len(B) = Len(env.lines) + 1
              /\ \A k \in 1..Len(env.lines) : B[k] = env.lines[k]
         /\ env.nil =>
              /\ B = agiInit(NilEnv, fl)
              /\ Len(B) = 21 + (IF fl.req # "" THEN 1 ELSE 0) + Len(fl.args) + 1
              /\ B[1] = "agi_network: yes"
              /\ \A k \in 1..(Len(B) - 1) : B[k] # ""
              /\ \A k \in 1..Len(fl.args) :
                   B[Len(B) - 1 - Len(fl.args) + k]
                     = "agi_arg_" \o ToString(k) \o ": " \o fl.args[k]

C25_Witness ==
    /\ Built
    /\ cfg.confData.AgiEnv = LoadedEnv(<< "b: 2", "", "a: 1" >>)
    /\ cfg.Env = << "b: 2", "", "a: 1", "" >>

\* C26: when the file cannot be opened or cannot be parsed, benchInit
\* returns all the same, with the default handshake block and no script.
C26_FaultyFileUnused ==
    (Built /\ cfg.conf.kind \in {"unopenable", "syntax", "typeerr"}) =>
      /\ cfg.warned
      /\ cfg.Env = agiInit(NilEnv, cfg.flags)
      /\ cfg.Payload = Nil

\* ---- Active while draining
\* C27: once the stop flag is set, Active is 0 only when every session has
\* returned and no lane is about to launch one, and consoleOutput has ended
\* only when every session has returned.
C27_ActiveZeroMeansDrained ==
    /\ (Shutdown = 1 /\ Active = 0 /\ benchPc # "l143") =>
          /\ \A i \in Ids : conns[i].pc = "done"
          /\ \A l \in DOMAIN lanePc : lanePc[l] # "l152"
    /\ conPc = "done" => \A i \in Ids : conns[i].pc = "done"

\* ---- the end of the script
\* the session left the loop because the script was exhausted
Exhausted(c) ==
    /\ HasScript
    /\ Completing(c)
    /\ c.idx = Len(cfg.Payload.msgs)

\* C28: with a script of K pairs a session reads at most K lines and is at a
\* read only while pairs are left; having written the K-th message, or right
\* after the handshake when K = 0, it goes to the close without another read,
\* sends its duration and is counted in Count.
C28_ScriptExhausted ==
    /\ [](\A i \in Ids :
            HasScript =>
              LET c == conns[i]
                  K == Len(cfg.Payload.msgs)
              IN /\ Cardinality({j \in 1..Len(c.io) : c.io[j].ev = "rx"}) <= K
                 /\ c.pc \in {"loop", "l225"} => c.idx < K
                 /\ Exhausted(c) =>
                      /\ c.line # hangup
                      /\ c.rep = CompletingRep(c)
                      /\ Len(c.io) = 1 + 3 * K + (IF Closed(c) THEN 1 ELSE 0)
                      /\ K > 0 => c.io[1 + 3 * K]
                                    = Ev("tx", cfg.Payload.msgs[K].Msg \o "\n")
                      /\ Closed(c) => c.io[Len(c.io)] = Ev(CloseEv, ""))
    /\ [][\A i \in Ids :
            LET c == conns[i]
                d == conns'[i]
                K == Len(cfg.Payload.msgs)
            IN (HasScript /\ d # c) =>
                 /\ (c.pc = "l199" /\ K = 0) => (d.pc = "l260" /\ Exhausted(d))
                 /\ (c.pc = "l225" /\ c.idx = K - 1) => (d.pc = "l260" /\ Exhausted(d))
                 /\ (Exhausted(c) /\ c.pc = "l260") =>
                       (d.pc = "l262" /\ d.io = Append(c.io, Ev(CloseEv, "")))
                 /\ (Exhausted(c) /\ c.pc = "l262") =>
                       (d.pc = "l263" /\ TimeChan' = Send(TimeChan, c.dur))
                 /\ (Exhausted(c) /\ c.pc = "l264") =>
                       /\ Count' = Count + 1
                       /\ Fail' = Fail
                       /\ d.rep.sample = 1 /\ d.rep.count = 1 /\ d.rep.fail = 0]_vars

C28_Witness ==
    \E i \in Ids : /\ HasScript
                   /\ Len(cfg.Payload.msgs) = 0
                   /\ Exhausted(conns[i])
                   /\ conns[i].pc = "l264"
                   /\ conns[i].io = << Ev("tx", EnvBlock), Ev(CloseEv, "") >>
                   /\ Len(folded) + Len(TimeChan.buf) >= 1

\* ---- closing the channels
\* C29: no session ever sends on a closed channel.  A channel is closed only
\* when every lane has ended and every session has returned, and every send
\* is made on an open channel.
C29_NoSendOnClosed ==
    /\ [](/\ \A i \in Ids : conns[i].pc # "panic"
          /\ (LogChan.closed \/ TimeChan.closed) =>
               /\ benchPc \in {"l172", "l174", "done"}
               /\ DOMAIN lanePc = 1..cfg.sess
               /\ \A l \in DOMAIN lanePc : lanePc[l] = "done"
               /\ \A i \in Ids : conns[i].pc = "done"
          /\ TimeChan.closed => LogChan.closed)
    /\ [][/\ Len(TimeChan'.buf) > Len(TimeChan.buf) => ~TimeChan.closed
          /\ Len(LogChan'.buf) > Len(LogChan.buf) => ~LogChan.closed
          /\ (LogChan.closed => LogChan'.closed) /\ (TimeChan.closed => TimeChan'.closed)]_vars

C29_Witness ==
    /\ TimeChan.closed
    /\ LogChan.closed
    /\ cfg.debug
    /\ Len(conns) = MaxSessions
    /\ Events("sample") >= 1
    /\ Events("log") = MaxSessions
    /\ ConnFailures >= 1

\* ---- the active counter
\* the sessions whose increment of line 199 is done and whose decrement is not
Counted == {i \in Ids : conns[i].rep.inc = 1 /\ conns[i].rep.dec = 0}

\* the sessions whose dial has succeeded and whose decrement is not done
ConnectedOpen ==
    {i \in Ids : (conns[i].pc = "l199" \/ conns[i].rep.inc = 1) /\ conns[i].rep.dec = 0}

\* C30 as stated: Active equals the number of sessions that have connected
\* successfully and have not executed their decrement.
C30_ActiveIsConnected == Active = Cardinality(ConnectedOpen)

\* C30: Active equals the number of sessions that have executed the increment
\* which follows a successful dial and have not executed their decrement; it
\* never exceeds the number of launched sessions that have not returned, and a
\* session that is connecting or whose dial failed is not counted.
C30_ActiveIsCounted ==
    /\ Active = Cardinality(Counted)
    /\ Active <= Cardinality({i \in Ids : conns[i].pc # "done"})
    /\ Counted \subseteq ConnectedOpen
    /\ \A i \in Ids :
         /\ conns[i].rep.dec <= conns[i].rep.inc
         /\ (conns[i].pc \in {"l187", "l190", "l192"} \/ ConnFailed(i)) => i \notin Counted
         /\ conns[i].pc = "done" => i \notin Counted

C30_Witness ==
    /\ Active = 1
    /\ \E i, k \in Ids :
         /\ i \in Counted
         /\ conns[i].pc = "loop"
         /\ ConnFailed(k)

====
